---- MODULE Spec2Model ----
(***************************************************************************)
(* bevy_log_events: the settings registry, the registration routine, the   *)
(* on-exit save / on-startup load cycle and the three logging dispatch     *)
(* paths, as a state machine over the World's resources and the settings   *)
(* file on disk.                                                           *)
(***************************************************************************)
EXTENDS Integers, Sequences, FiniteSets, TLC

\* ------------------------------------------------------------------ bounds
\* number of process runs explored (a run is plugin build .. process end)
MaxRuns == 3
\* number of settings edits (UI or application code) explored over all runs
MaxEdits == 1

\* number of instances of one event type sent through the queue in a run
MaxEvents == 2

\* number of times the application calls one LogEvent method for one type
MaxCalls == 2

\* ------------------------------------------------------------- the universe
\* a Rust type is given by its path: the segments of the modules it is
\* defined in, then its identifier

\* std::any::type_name::<T>(): the segments of the path joined by "::"
RECURSIVE type_name(_)
type_name(T) ==
    IF Len(T) = 1 THEN T[1] ELSE T[1] \o "::" \o type_name(Tail(T))

\* type_stem::<T>(): type_name::<T>().split("::").last()
type_stem(T) == T[Len(T)]

\* trigger_name::<E, C>(): format!("{}<{}>", type_stem::<E>(), type_name::<C>())
trigger_name(E, C) == type_stem(E) \o "<" \o type_name(C) \o ">"

\* the types of the application: an event type it sends and triggers, a
\* lifecycle event of the host, a component; two event types of the same
\* identifier defined in different modules; the unit type (C of a
\* LoggedEventSettings<E> without component)
Foo == <<"app", "Foo">>
OnAdd == <<"bevy_ecs", "world", "OnAdd">>
Comp == <<"app", "Comp">>
Hit == <<"app", "Hit">>
OtherHit == <<"lib", "Hit">>
Unit == <<"()">>

\* LoggedTypeIds the application may register: an event type by its full
\* type name, an (event, component) pair by its trigger_name.
EventNames == {type_name(Foo)}
PairNames == {trigger_name(OnAdd, Comp)}
Names == EventNames \cup PairNames

\* no LoggedTypeId (a step that is about no type)
NoName == ""

\* ------------------------------------------------------------------ strings
\* the characters of the names and filters, by their byte
char ==
    36 :> "$" @@ 40 :> "(" @@ 41 :> ")" @@ 58 :> ":" @@ 60 :> "<" @@ 62 :> ">"
        @@ 65 :> "A" @@ 66 :> "B" @@ 67 :> "C" @@ 68 :> "D" @@ 69 :> "E" @@ 70 :> "F"
        @@ 71 :> "G" @@ 72 :> "H" @@ 73 :> "I" @@ 74 :> "J" @@ 75 :> "K" @@ 76 :> "L"
        @@ 77 :> "M" @@ 78 :> "N" @@ 79 :> "O" @@ 80 :> "P" @@ 81 :> "Q" @@ 82 :> "R"
        @@ 83 :> "S" @@ 84 :> "T" @@ 85 :> "U" @@ 86 :> "V" @@ 87 :> "W" @@ 88 :> "X"
        @@ 89 :> "Y" @@ 90 :> "Z" @@ 94 :> "^" @@ 97 :> "a" @@ 98 :> "b" @@ 99 :> "c"
        @@ 100 :> "d" @@ 101 :> "e" @@ 102 :> "f" @@ 103 :> "g" @@ 104 :> "h" @@ 105 :> "i"
        @@ 106 :> "j" @@ 107 :> "k" @@ 108 :> "l" @@ 109 :> "m" @@ 110 :> "n" @@ 111 :> "o"
        @@ 112 :> "p" @@ 113 :> "q" @@ 114 :> "r" @@ 115 :> "s" @@ 116 :> "t" @@ 117 :> "u"
        @@ 118 :> "v" @@ 119 :> "w" @@ 120 :> "x" @@ 121 :> "y" @@ 122 :> "z"

\* String::from_utf8 of a sequence of (ASCII) bytes
RECURSIVE from_utf8(_)
from_utf8(bytes) == IF bytes = <<>> THEN "" ELSE char[Head(bytes)] \o from_utf8(Tail(bytes))

\* the bytes of the keys a registry can hold
KeyBytes ==
    {<<97, 112, 112, 58, 58, 70, 111, 111>>,
     <<79, 110, 65, 100, 100, 60, 97, 112, 112, 58, 58, 67, 111, 109, 112, 62>>,
     <<72, 105, 116, 60, 97, 112, 112, 58, 58, 67, 111, 109, 112, 62>>}

\* the keys as strings
KeyStrings == [bytes \in KeyBytes |-> from_utf8(bytes)]

\* str::as_bytes of a key
as_bytes(s) == CHOOSE bytes \in KeyBytes : KeyStrings[bytes] = s

\* Ord for str: the lexicographic order of the bytes
RECURSIVE bytes_lt(_, _)
bytes_lt(x, y) ==
    IF y = <<>> THEN FALSE
    ELSE IF x = <<>> THEN TRUE
    ELSE IF Head(x) # Head(y) THEN Head(x) < Head(y)
    ELSE bytes_lt(Tail(x), Tail(y))


\* bitflags EventKind
EVENT == "EVENT"
TRIGGER == "TRIGGER"
EventKind == {EVENT, TRIGGER}

\* bevy::log::Level
Level_ERROR == "Level::ERROR"
Level_WARN == "Level::WARN"
Level_INFO == "Level::INFO"
Level_DEBUG == "Level::DEBUG"
Level_TRACE == "Level::TRACE"
ALL_LEVELS == {Level_ERROR, Level_WARN, Level_INFO, Level_DEBUG, Level_TRACE}

\* struct EventSettings
EventSettings == [enabled : BOOLEAN, pretty : BOOLEAN, level : ALL_LEVELS]

\* impl Default for EventSettings
EventSettings_default == [enabled |-> TRUE, pretty |-> TRUE, level |-> Level_INFO]

\* an empty BTreeMap
EmptyMap == [n \in {} |-> EventSettings_default]

\* the path given to LogEventsPlugin::new
settings_path == "assets/log_settings.ron"

\* the ComponentId the World gives to the resource LoggedEventSettings<E, C>
resource_id(E, C) ==
    "LoggedEventSettings<" \o type_name(E) \o ", " \o type_name(C) \o ">"

\* ------------------------------------------------------- level (de)serializing
\* Level::as_str, used by serialize_level
serialize_level(level) ==
    CASE level = Level_ERROR -> "ERROR"
      [] level = Level_WARN -> "WARN"
      [] level = Level_INFO -> "INFO"
      [] level = Level_DEBUG -> "DEBUG"
      [] level = Level_TRACE -> "TRACE"

\* strings deserialize_level accepts
LevelStrings == {"ERROR", "WARN", "INFO", "DEBUG", "TRACE"}

deserialize_level_swapped(s) ==
    CASE s = "ERROR" -> [ok |-> TRUE, level |-> Level_ERROR]
      [] s = "WARN" -> [ok |-> TRUE, level |-> Level_INFO]
      [] s = "INFO" -> [ok |-> TRUE, level |-> Level_WARN]
      [] s = "DEBUG" -> [ok |-> TRUE, level |-> Level_DEBUG]
      [] s = "TRACE" -> [ok |-> TRUE, level |-> Level_TRACE]
      [] OTHER -> [ok |-> FALSE, level |-> Level_INFO]

\* deserialize_level: Ok(level) for the five names, Err otherwise
deserialize_level(s) ==
    CASE s = "ERROR" -> [ok |-> TRUE, level |-> Level_ERROR]
      [] s = "WARN" -> [ok |-> TRUE, level |-> Level_WARN]
      [] s = "INFO" -> [ok |-> TRUE, level |-> Level_INFO]
      [] s = "DEBUG" -> [ok |-> TRUE, level |-> Level_DEBUG]
      [] s = "TRACE" -> [ok |-> TRUE, level |-> Level_TRACE]
      [] OTHER -> [ok |-> FALSE, level |-> Level_INFO]

\* the serialized form of one EventSettings (serde derive + serialize_with)
serialize_event_settings(s) ==
    [enabled |-> s.enabled, pretty |-> s.pretty, level |-> serialize_level(s.level)]

\* the serialized form of LoggedEventsSettings written by to_string_pretty
serialize(to_serialize) ==
    [plugin_enabled |-> to_serialize.plugin_enabled,
     events_settings |->
        [n \in DOMAIN to_serialize.events_settings |->
            serialize_event_settings(to_serialize.events_settings[n])]]

deserialize_skips_bad(text) ==
    LET good == {n \in DOMAIN text.events_settings :
                    deserialize_level(text.events_settings[n].level).ok}
    IN [ok |-> TRUE,
        value |->
          [plugin_enabled |-> text.plugin_enabled,
           events_settings |->
              [n \in good |->
                  [enabled |-> text.events_settings[n].enabled,
                   pretty |-> text.events_settings[n].pretty,
                   level |-> deserialize_level(text.events_settings[n].level).level]]]]

\* from_reader::<LoggedEventsSettings>: Err when any level string is rejected
deserialize(text) ==
    IF \E n \in DOMAIN text.events_settings :
            ~deserialize_level(text.events_settings[n].level).ok
    THEN [ok |-> FALSE,
          value |-> [plugin_enabled |-> TRUE, events_settings |-> EmptyMap]]
    ELSE [ok |-> TRUE,
          value |->
            [plugin_enabled |-> text.plugin_enabled,
             events_settings |->
                [n \in DOMAIN text.events_settings |->
                    [enabled |-> text.events_settings[n].enabled,
                     pretty |-> text.events_settings[n].pretty,
                     level |-> deserialize_level(text.events_settings[n].level).level]]]]

\* -------------------------------------------------------------------- state
VARIABLES
    file,               \* the settings file on disk
    plugin_settings,    \* resource LogEventsPluginSettings
    log_settings_ids,   \* resource LogSettingsIds: name -> (ComponentId, EventKind)
    resources,          \* the World's settings resources, by ComponentId
    stage,              \* where the run is: startup, the stages of a tick, exited
    app_exit,           \* an AppExit event has been sent in this run
    saves,              \* how many times save_settings ran in this run
    save_ok,            \* the last save_settings of this run wrote the file
    warnings,           \* warn! lines of LogEventsPluginSettings::new in this run
    run,                \* number of the current run
    edits,              \* settings edits made so far
    prev_run,           \* live state at the end of the previous run
    last,               \* the operation that made the last step, with its result
    events,             \* Events<E> of each event type: the two buffers, the count
    reader,             \* the EventReader cursor of each log_event::<E> system
    emitted,            \* the lines the last step handed to the log sink
    wired,              \* how often the App builder made each LogEvent call
    skipped,            \* history: the queued instances a dispatch declined
    track_location,     \* the build has the track_location feature of the host
    window_state,       \* resource LogEventsWindowState
    displayed           \* the entries the last pass of the panel drew, in order

vars == <<file, plugin_settings, log_settings_ids, resources, stage, app_exit,
          saves, save_ok, warnings, run, edits, prev_run, last, events, reader,
          emitted, wired, skipped, track_location, window_state, displayed>>

\* a file that cannot be opened, one that cannot be parsed, one holding RON text
NoText == [plugin_enabled |-> TRUE, events_settings |-> EmptyMap]
FileMissing == [status |-> "missing", text |-> NoText]
FileUnreadable == [status |-> "unreadable", text |-> NoText]
FileMalformed == [status |-> "malformed", text |-> NoText]
FileRon(text) == [status |-> "ron", text |-> text]

\* LogEventsPluginSettings::default
LogEventsPluginSettings_default(path) ==
    [enabled |-> TRUE, show_window |-> FALSE, saved_settings |-> path,
     previous_settings |-> EmptyMap]

\* LogEventsPluginSettings::load_saved_settings: File::open, then from_reader
load_saved_settings(path, f) ==
    IF f.status # "ron" THEN [ok |-> FALSE, new |-> LogEventsPluginSettings_default(path)]
    ELSE LET saved_settings == deserialize(f.text) IN
         IF ~saved_settings.ok
         THEN [ok |-> FALSE, new |-> LogEventsPluginSettings_default(path)]
         ELSE [ok |-> TRUE,
               new |-> [enabled |-> saved_settings.value.plugin_enabled,
                        show_window |-> FALSE,
                        saved_settings |-> path,
                        previous_settings |-> saved_settings.value.events_settings]]

LogEventsPluginSettings_new_keeps_flag(path, f) ==
    LET loaded == load_saved_settings(path, f) IN
    IF loaded.ok THEN [settings |-> loaded.new, warned |-> 0]
    ELSE [settings |-> [LogEventsPluginSettings_default(path) EXCEPT
                            !.enabled = f.text.plugin_enabled],
          warned |-> 1]

\* LogEventsPluginSettings::new: the loaded settings, or a warning and the default
LogEventsPluginSettings_new(path, f) ==
    LET loaded == load_saved_settings(path, f) IN
    IF loaded.ok THEN [settings |-> loaded.new, warned |-> 0]
    ELSE [settings |-> LogEventsPluginSettings_default(path), warned |-> 1]

\* nothing is known of an earlier run
NoPrevRun ==
    [exists |-> FALSE, enabled |-> TRUE, live |-> EmptyMap, saved |-> FALSE,
     latest |-> EmptyMap, all_saved |-> TRUE]

\* BTreeMap::insert, World::insert_resource: add or replace the value of a key
Put(map, key, value) ==
    [k \in DOMAIN map \cup {key} |-> IF k = key THEN value ELSE map[k]]

\* Events<E>::default for every event type: nothing sent
NoEvents == [e \in EventNames |-> [a |-> <<>>, b |-> <<>>, event_count |-> 0]]

all_settings_restored ==
    [n \in DOMAIN log_settings_ids |->
        IF n \in DOMAIN plugin_settings.previous_settings
        THEN plugin_settings.previous_settings[n]
        ELSE EventSettings_default]

\* live EventSettings of every registered name (what save_settings collects)
all_settings ==
    [n \in DOMAIN log_settings_ids |-> resources[log_settings_ids[n].id]]

\* the settings an earlier run may have left in the file: the default, and the
\* value of the specification's restore scenario
QuietSettings == [enabled |-> FALSE, pretty |-> FALSE, level |-> Level_WARN]

\* what save_settings of an earlier run may have written
SavedSnapshots ==
    {[plugin_enabled |-> b, events_settings |-> m] :
        b \in BOOLEAN,
        m \in UNION {[S -> {EventSettings_default, QuietSettings}] : S \in SUBSET Names}}

\* a level string deserialize_level rejects
BadLevelString == "Info"

\* the files an edit of one level string of f into BadLevelString leaves
BadLevelFiles(f) ==
    IF f.status # "ron" THEN {}
    ELSE {FileRon([f.text EXCEPT !.events_settings[n].level = BadLevelString]) :
            n \in DOMAIN f.text.events_settings}

\* the files a process may find at its settings path: none, one it cannot
\* read or parse, one an earlier save wrote, one hand-edited into an unknown
\* level name
StartFiles ==
    {FileMissing, FileUnreadable, FileMalformed}
        \cup {FileRon(serialize(snapshot)) : snapshot \in SavedSnapshots}
        \cup UNION {BadLevelFiles(FileRon(serialize(snapshot))) : snapshot \in SavedSnapshots}

\* the files of the dispatch runs: every type saved quiet or none saved
DispatchFiles ==
    {FileRon(serialize(snapshot)) :
        snapshot \in {s \in SavedSnapshots :
                        \/ s.events_settings = EmptyMap
                        \/ s.events_settings = [n \in Names |-> QuietSettings]}}

\* ------------------------------------------------------- the LogEvent calls
\* a call of a LogEvent method on the App, as what the method does with its
\* type parameters: the name and the kind it registers and the ComponentId of
\* the resource it inserts, LoggedEventSettings<E> or LoggedEventSettings<E, C>
LogEvent_log_event(E) ==
    [method |-> "log_event", name |-> type_name(E), kind |-> EVENT,
     id |-> resource_id(E, Unit)]

LogEvent_log_triggered_own_resource(E) ==
    [method |-> "log_triggered", name |-> type_name(E), kind |-> TRIGGER,
     id |-> resource_id(E, E)]

LogEvent_log_triggered(E) ==
    [method |-> "log_triggered", name |-> type_name(E), kind |-> TRIGGER,
     id |-> resource_id(E, Unit)]

LogEvent_log_trigger(E, C) ==
    [method |-> "log_trigger", name |-> trigger_name(E, C), kind |-> TRIGGER,
     id |-> resource_id(E, C)]

\* the calls an application may make for its event type and a lifecycle pair
MainCalls ==
    {LogEvent_log_event(Foo), LogEvent_log_triggered(Foo), LogEvent_log_trigger(OnAdd, Comp)}

\* log_trigger calls for two event types of the same identifier
HitCalls == {LogEvent_log_trigger(Hit, Comp), LogEvent_log_trigger(OtherHit, Comp)}

\* every call of the universe
RegistrationCalls == MainCalls \cup HitCalls

\* the names the calls of the universe register
AllNames == {call.name : call \in RegistrationCalls}

\* the applications: how often each of calls is made, the others never
Profiles(calls, most) ==
    {w \in [RegistrationCalls -> 0..most] : \A call \in RegistrationCalls \ calls : w[call] = 0}

\* an empty LogSettingsIds
NoIds == [n \in {} |-> [id |-> "", kind |-> {}]]

\* the resources the calls insert: every LogEvent method starts with
\* insert_resource(LoggedEventSettings::default())
inserted_resources(w) ==
    [i \in {call.id : call \in {c \in RegistrationCalls : w[c] > 0}} |->
        EventSettings_default]

\* enum EnabledFilter, enum LevelFilter (LevelFilter::Level(l) is the level l)
EnabledFilter == {"All", "Enabled", "Disabled"}
LevelFilter == {"All"} \cup ALL_LEVELS

\* LogEventsWindowState::default(): the text of the name filter is a sequence
\* of characters, the Option<Regex> is <<>> for None
LogEventsWindowState_default ==
    [name_filter |-> <<>>, case_sensitive |-> FALSE, use_regex |-> FALSE,
     enabled_filter |-> "All", level_filter |-> "All", regex |-> <<>>, shown |-> 0]

\* LogEventsPlugin::build on a fresh World with one of files at the path, then
\* the LogEvent calls of one of profiles, in a build with or without
\* track_location as locations says
InitWith(files, profiles, locations) ==
    /\ track_location \in locations
    /\ window_state = LogEventsWindowState_default
    /\ displayed = <<>>
    /\ file \in files
    /\ wired \in profiles
    /\ plugin_settings = LogEventsPluginSettings_new(settings_path, file).settings
    /\ log_settings_ids = NoIds
    /\ resources = inserted_resources(wired)
    /\ stage = "Startup"
    /\ app_exit = FALSE
    /\ saves = 0
    /\ save_ok = FALSE
    /\ warnings = LogEventsPluginSettings_new(settings_path, file).warned
    /\ run = 1
    /\ edits = 0
    /\ prev_run = NoPrevRun
    /\ last = [op |-> "build", name |-> NoName, kind |-> "", result |-> warnings = 0,
               failed |-> {}]
    /\ events = NoEvents
    /\ reader = [e \in EventNames |-> 0]
    /\ emitted = <<>>
    /\ skipped = {}

\* the same, in a build without track_location
InitFrom(files, profiles) == InitWith(files, profiles, {FALSE})

\* a process starts with any of the files at its path; its application makes
\* no call twice
Init == InitFrom(StartFiles, Profiles(MainCalls, 1))

\* the files of the runs of an application that repeats calls: none, or one an
\* earlier save wrote with every type quiet
CallsFiles ==
    {FileMissing,
     FileRon(serialize([plugin_enabled |-> FALSE,
                        events_settings |-> [n \in Names |-> QuietSettings]]))}

\* a process starts whose application makes each call up to MaxCalls times
InitCalls == InitFrom(CallsFiles, Profiles(MainCalls, MaxCalls))

\* the first run on a machine without a settings file, of an application that
\* makes no call twice
InitFresh == InitFrom({FileMissing}, Profiles(MainCalls, 1))

\* the application of the dispatch runs: it makes every call for its event
\* type and the lifecycle pair, once
DispatchProfiles ==
    {w \in Profiles(MainCalls, 1) : \A call \in MainCalls : w[call] = 1}

\* a process that is going to send and trigger events starts
InitDispatch == InitFrom(DispatchFiles, DispatchProfiles)

\* a process starts whose application logs two event types of the same
\* identifier for one component
InitNames ==
    InitFrom(CallsFiles, {w \in Profiles(HitCalls, 1) : \E call \in HitCalls : w[call] = 1})

\* a process that is going to send and trigger events starts, of an
\* application that makes each call up to MaxCalls times
InitWiring == InitFrom({FileMissing}, Profiles(MainCalls, MaxCalls))

\* a step that is no logging dispatch: nothing is sent, read or emitted
NoDispatch ==
    /\ emitted' = <<>>
    /\ UNCHANGED <<events, reader, skipped>>

Op(op, name, kind, result) ==
    [op |-> op, name |-> name, kind |-> kind, result |-> result, failed |-> {}]

\* stages of a run in which the schedules of a tick are running
TickStages == {"Update", "PostUpdate", "Last", "LastDone"}

\* ------------------------------------------------------------ registration
registered_never(ids, name, kind) == FALSE

\* LogSettingsIds::registered
registered(ids, name, kind) ==
    name \in DOMAIN ids /\ kind \in ids[name].kind

register_other_handle(ids, name, id, kind) ==
    IF name \in DOMAIN ids
    THEN [ids EXCEPT ![name].kind = @ \cup {kind}]
    ELSE Put(ids, name, [id |-> resource_id(<<name>>, Unit), kind |-> {kind}])

\* LogSettingsIds::register
register(ids, name, id, kind) ==
    IF name \in DOMAIN ids
    THEN [ids EXCEPT ![name].kind = @ \cup {kind}]
    ELSE Put(ids, name, [id |-> id, kind |-> {kind}])

\* BTreeMap::iter over the keys: the least key first, then the others
RECURSIVE ascending(_)
ascending(keys) ==
    IF keys = {} THEN <<>>
    ELSE LET least == CHOOSE k \in keys :
                        \A other \in keys \ {k} : bytes_lt(as_bytes(k), as_bytes(other))
         IN <<least>> \o ascending(keys \ {least})

iter_ids_descending(ids) ==
    LET keys == ascending(DOMAIN ids)
    IN [i \in 1..Len(keys) |-> <<keys[Len(keys) + 1 - i], ids[keys[Len(keys) + 1 - i]].id>>]

\* LogSettingsIds::iter_ids: the (name, id) pairs of the BTreeMap, in the
\* ascending order of its keys
iter_ids(ids) ==
    LET keys == ascending(DOMAIN ids)
    IN [i \in 1..Len(keys) |-> <<keys[i], ids[keys[i]].id>>]

restored_settings_default_only(name) == EventSettings_default

\* the value register_event leaves in the new resource: T::default(), replaced
\* by the entry of previous_settings for the name when there is one
restored_settings(name) ==
    IF name \in DOMAIN plugin_settings.previous_settings
    THEN plugin_settings.previous_settings[name]
    ELSE EventSettings_default

\* register_event::<T>(world, name, kind) -> bool; id is the ComponentId of T
register_event(id, name, kind) ==
    /\ stage = "Startup"
    /\ IF registered(log_settings_ids, name, kind)
       THEN /\ last' = Op("register_event", name, kind, FALSE)
            /\ UNCHANGED <<resources, log_settings_ids>>
       ELSE /\ resources' = Put(resources, id, restored_settings(name))
            /\ log_settings_ids' = register(log_settings_ids, name, id, kind)
            /\ last' = Op("register_event", name, kind, TRUE)
    /\ UNCHANGED <<file, plugin_settings, stage, app_exit, saves, save_ok,
                   warnings, run, edits, prev_run, wired, track_location,
                   window_state, displayed>>
    /\ NoDispatch

\* the registrations the calls ask for under the name and kind of call
RECURSIVE asked(_, _)
asked(call, calls) ==
    IF calls = {} THEN 0
    ELSE LET c == CHOOSE c \in calls : TRUE IN
         (IF c.name = call.name /\ c.kind = call.kind
          THEN wired[c] ELSE 0) + asked(call, calls \ {c})

\* the Startup schedule runs the registration a LogEvent call added to it:
\* one registration for every call, in an order the scheduler chooses
Register ==
    \E call \in RegistrationCalls :
        /\ wired[call] > 0
        /\ registered(log_settings_ids, call.name, call.kind)
            => asked(call, RegistrationCalls) >= 2
        /\ register_event(call.id, call.name, call.kind)

edit_settings_and_snapshot(name, field, value) ==
    /\ stage \in {"Startup"} \cup TickStages
    /\ edits < MaxEdits
    /\ name \in DOMAIN log_settings_ids
    /\ resources[log_settings_ids[name].id][field] # value
    /\ resources' = [resources EXCEPT ![log_settings_ids[name].id][field] = value]
    /\ plugin_settings' =
            [plugin_settings EXCEPT !.previous_settings =
                [n \in DOMAIN @ \cup {name} |-> IF n = name
                                                THEN resources'[log_settings_ids[name].id]
                                                ELSE @[n]]]
    /\ edits' = edits + 1
    /\ last' = Op("edit_settings", name, "", TRUE)
    /\ UNCHANGED <<file, log_settings_ids, stage, app_exit,
                   saves, save_ok, warnings, run, prev_run, wired, track_location,
                   window_state, displayed>>
    /\ NoDispatch

\* ------------------------------------------------------------------- edits
\* the settings panel (log_events_window_ui) or an application system writes
\* one field of a registered type's EventSettings
edit_settings(name, field, value) ==
    /\ stage \in {"Startup"} \cup TickStages
    /\ edits < MaxEdits
    /\ name \in DOMAIN log_settings_ids
    /\ resources[log_settings_ids[name].id][field] # value
    /\ resources' = [resources EXCEPT ![log_settings_ids[name].id][field] = value]
    /\ edits' = edits + 1
    /\ last' = Op("edit_settings", name, "", TRUE)
    /\ UNCHANGED <<file, plugin_settings, log_settings_ids, stage, app_exit,
                   saves, save_ok, warnings, run, prev_run, wired, track_location,
                   window_state, displayed>>
    /\ NoDispatch

EditSettings ==
    \E name \in DOMAIN log_settings_ids :
        \/ \E b \in BOOLEAN : edit_settings(name, "enabled", b)
        \/ \E b \in BOOLEAN : edit_settings(name, "pretty", b)
        \/ \E l \in ALL_LEVELS : edit_settings(name, "level", l)

\* the "Enabled" checkbox of the panel, or an application system, flips the
\* global flag
EditPluginEnabled ==
    /\ stage \in {"Startup"} \cup TickStages
    /\ edits < MaxEdits
    /\ plugin_settings' = [plugin_settings EXCEPT !.enabled = ~@]
    /\ edits' = edits + 1
    /\ last' = Op("edit_plugin", NoName, "", TRUE)
    /\ UNCHANGED <<file, log_settings_ids, resources, stage, app_exit, saves,
                   save_ok, warnings, run, prev_run, wired, track_location,
                   window_state, displayed>>
    /\ NoDispatch

\* ------------------------------------------------------ the settings panel
\* str::to_lowercase (of ASCII text)
to_lowercase(bytes) ==
    [i \in DOMAIN bytes |-> IF bytes[i] \in 65..90 THEN bytes[i] + 32 ELSE bytes[i]]

\* str::contains
contains(haystack, needle) ==
    \E i \in 0..(Len(haystack) - Len(needle)) : SubSeq(haystack, i + 1, i + Len(needle)) = needle

\* the nesting of the groups of a pattern is closed: every ")" has its "(", and
\* no "(" is left open
RECURSIVE groups_closed(_, _)
groups_closed(re, depth) ==
    IF re = <<>> THEN depth = 0
    ELSE IF Head(re) = 40 THEN groups_closed(Tail(re), depth + 1)
    ELSE IF Head(re) = 41 THEN depth > 0 /\ groups_closed(Tail(re), depth - 1)
    ELSE groups_closed(Tail(re), depth)

\* Regex::new(&re).ok() for the patterns of the model (literal characters, "^"
\* at the start, "$" at the end, groups): <<>> for a pattern that does not
\* compile, else the compiled expression
Regex_new(re) ==
    IF ~groups_closed(re, 0) THEN <<>>
    ELSE <<[start |-> re # <<>> /\ Head(re) = 94,
            end |-> re # <<>> /\ re[Len(re)] = 36,
            literal |-> SelectSeq(re, LAMBDA c : c \notin {94, 36, 40, 41})]>>

\* Regex::is_match
is_match(re, text) ==
    \E i \in 0..(Len(text) - Len(re.literal)) :
        /\ SubSeq(text, i + 1, i + Len(re.literal)) = re.literal
        /\ re.start => i = 0
        /\ re.end => i + Len(re.literal) = Len(text)

\* LogEventsWindowState::name_contains_filter
name_contains_filter(state, name) ==
    \E folded \in {IF state.case_sensitive
                    THEN <<name, state.name_filter>>
                    ELSE <<to_lowercase(name), to_lowercase(state.name_filter)>>} :
        IF state.use_regex
        THEN state.regex # <<>> /\ is_match(state.regex[1], folded[1])
        ELSE contains(folded[1], folded[2])

\* LogEventsWindowState::update_regex
update_regex(state) ==
    IF state.use_regex
    THEN [state EXCEPT !.regex = Regex_new(IF state.case_sensitive
                                           THEN state.name_filter
                                           ELSE to_lowercase(state.name_filter))]
    ELSE [state EXCEPT !.regex = <<>>]

\* EnabledFilter::contains
EnabledFilter_contains(filter, enabled) ==
    CASE filter = "All" -> TRUE
      [] filter = "Enabled" -> enabled
      [] filter = "Disabled" -> ~enabled

\* LevelFilter::contains
LevelFilter_contains(filter, level) ==
    IF filter = "All" THEN TRUE ELSE filter = level

must_show_any_level(state, log_settings) ==
    EnabledFilter_contains(state.enabled_filter, log_settings.enabled)

\* LogEventsWindowState::must_show
must_show(state, log_settings) ==
    /\ EnabledFilter_contains(state.enabled_filter, log_settings.enabled)
    /\ LevelFilter_contains(state.level_filter, log_settings.level)

\* the texts the user types into the name field: nothing, "foo", "^On" and
\* "(", which is no regular expression
NameFilters == {<<>>, <<102, 111, 111>>, <<94, 79, 110>>, <<40>>}

\* the entries the user selects in the level filter: all levels, the default
\* level, the level of the quiet type
LevelFilterChoices == {"All", Level_INFO, Level_WARN}

\* what the user does to the panel in one frame: nothing, or one widget
Interactions ==
    {[widget |-> "none"], [widget |-> "plugin_enabled"],
     [widget |-> "case_sensitive"], [widget |-> "use_regex"]}
        \cup {[widget |-> "name_filter", text |-> f] : f \in NameFilters}
        \cup {[widget |-> "enabled_filter", enabled |-> f] : f \in EnabledFilter}
        \cup {[widget |-> "level_filter", level |-> f] : f \in LevelFilterChoices}
        \cup {[widget |-> "entry", name |-> n, field |-> f, checked |-> v] :
                    n \in AllNames, f \in {"enabled", "pretty"}, v \in BOOLEAN}
        \cup {[widget |-> "entry", name |-> n, field |-> "level", selected |-> v] :
                    n \in AllNames, v \in ALL_LEVELS}

\* the value an interaction with the widgets of an entry gives the field
entry_value(user) == IF user.field = "level" THEN user.selected ELSE user.checked

\* the state of the window after the search widgets of the frame, the regular
\* expression compiled again from the text
search_widgets(state, user) ==
    update_regex(
        CASE user.widget = "name_filter" -> [state EXCEPT !.name_filter = user.text]
          [] user.widget = "case_sensitive" -> [state EXCEPT !.case_sensitive = ~@]
          [] user.widget = "use_regex" -> [state EXCEPT !.use_regex = ~@]
          [] user.widget = "enabled_filter" -> [state EXCEPT !.enabled_filter = user.enabled]
          [] user.widget = "level_filter" -> [state EXCEPT !.level_filter = user.level]
          [] OTHER -> state)

\* log_events_window_ui: one pass of the panel in a frame of a tick. The
\* widgets of the search come first, then the loop over iter_ids shows the
\* entries that pass the filters, each with the widgets that edit it
log_events_window_ui ==
    /\ stage \in TickStages
    /\ \E entries \in {iter_ids(log_settings_ids)}, user \in Interactions :
        \E state \in {search_widgets(window_state, user)} :
        \E shown \in {SelectSeq(entries,
                                LAMBDA entry : /\ name_contains_filter(state, as_bytes(entry[1]))
                                               /\ must_show(state, resources[entry[2]]))} :
        /\ window_state' = [state EXCEPT !.shown = Len(shown)]
        /\ displayed' = shown
        /\ IF user.widget = "plugin_enabled"
           THEN /\ edits < MaxEdits
                /\ plugin_settings' = [plugin_settings EXCEPT !.enabled = ~@]
                /\ edits' = edits + 1
                /\ UNCHANGED resources
                /\ last' = Op("log_events_window_ui", NoName, user.widget, TRUE)
           ELSE IF user.widget = "entry"
           THEN /\ edits < MaxEdits
                /\ \E i \in DOMAIN shown : shown[i][1] = user.name
                /\ resources[log_settings_ids[user.name].id][user.field] # entry_value(user)
                /\ resources' = [resources EXCEPT
                                    ![log_settings_ids[user.name].id][user.field] =
                                        entry_value(user)]
                /\ edits' = edits + 1
                /\ UNCHANGED plugin_settings
                /\ last' = Op("log_events_window_ui", user.name, user.widget, TRUE)
           ELSE /\ UNCHANGED <<plugin_settings, resources, edits>>
                /\ last' = Op("log_events_window_ui", NoName, user.widget, FALSE)
    /\ UNCHANGED <<file, log_settings_ids, stage, app_exit, saves, save_ok, warnings,
                   run, prev_run, wired, track_location>>
    /\ NoDispatch

\* ------------------------------------------------------------- the schedule
\* the Startup schedule is over (every registration in it has run), the first
\* tick begins
StartupDone ==
    /\ stage = "Startup"
    /\ \A call \in RegistrationCalls :
            wired[call] > 0 => registered(log_settings_ids, call.name, call.kind)
    /\ stage' = "Update"
    /\ last' = Op("startup_done", NoName, "", TRUE)
    /\ UNCHANGED <<file, plugin_settings, log_settings_ids, resources, app_exit,
                   saves, save_ok, warnings, run, edits, prev_run, wired, track_location,
                   window_state, displayed>>
    /\ NoDispatch

\* some system of the running schedule writes an AppExit event (a key press
\* handled in Update, the window closing in PostUpdate, a system in Last)
SendAppExit ==
    /\ stage \in TickStages
    /\ ~app_exit
    /\ app_exit' = TRUE
    /\ last' = Op("send_app_exit", NoName, "", TRUE)
    /\ UNCHANGED <<file, plugin_settings, log_settings_ids, resources, stage,
                   saves, save_ok, warnings, run, edits, prev_run, wired, track_location,
                   window_state, displayed>>
    /\ NoDispatch

\* the schedules before PostUpdate have run
EnterPostUpdate ==
    /\ stage = "Update"
    /\ stage' = "PostUpdate"
    /\ last' = Op("enter_post_update", NoName, "", TRUE)
    /\ UNCHANGED <<file, plugin_settings, log_settings_ids, resources, app_exit,
                   saves, save_ok, warnings, run, edits, prev_run, wired, track_location,
                   window_state, displayed>>
    /\ NoDispatch

\* outcomes of serialize_settings: Ok, an error before File::create truncated
\* the file (create_dir_all, File::create), an error after it (to_string_pretty,
\* write_all)
SaveOutcomes == {"ok", "err_before_create", "err_after_create"}

\* serialize_settings(path, to_serialize): the file it leaves on disk
serialize_settings(f, to_serialize, outcome) ==
    CASE outcome = "ok" -> FileRon(serialize(to_serialize))
      [] outcome = "err_before_create" -> f
      [] outcome = "err_after_create" -> FileMalformed

\* the macros of the tracing sink: an event of the level of the macro, with
\* the target the plugin gives
sink(macro, level, to_log) ==
    [macro |-> macro, level |-> level, target |-> "bevy_log_events", to_log |-> to_log]

log_one_level_down(level, to_log) ==
    CASE level = Level_ERROR -> sink("error!", Level_ERROR, to_log)
      [] level = Level_WARN -> sink("warn!", Level_WARN, to_log)
      [] level = Level_INFO -> sink("info!", Level_INFO, to_log)
      [] level = Level_DEBUG -> sink("debug!", Level_DEBUG, to_log)
      [] level = Level_TRACE -> sink("debug!", Level_DEBUG, to_log)

\* log(level, to_log): one line handed to the macro of that level
log(level, to_log) ==
    CASE level = Level_ERROR -> sink("error!", Level_ERROR, to_log)
      [] level = Level_WARN -> sink("warn!", Level_WARN, to_log)
      [] level = Level_INFO -> sink("info!", Level_INFO, to_log)
      [] level = Level_DEBUG -> sink("debug!", Level_DEBUG, to_log)
      [] level = Level_TRACE -> sink("trace!", Level_TRACE, to_log)

\* the message of save_settings: "Could not save <type> at <path> due to <e>"
could_not_save(path, e) ==
    [name |-> "bevy_log_events::utils::LoggedEventsSettings", on |-> <<path>>,
     pretty |-> FALSE, object |-> <<e>>]

save_settings_silent(outcome) ==
    LET to_serialize == [plugin_enabled |-> plugin_settings.enabled,
                         events_settings |-> all_settings]
    IN /\ file' = serialize_settings(file, to_serialize, outcome)
       /\ emitted' = <<>>
       /\ saves' = saves + 1
       /\ save_ok' = (outcome = "ok")
       /\ last' = Op("save_settings", NoName, outcome, outcome = "ok")

\* save_settings(world): the live settings of every registered name are
\* written; an Err of serialize_settings is logged with error!
save_settings(outcome) ==
    LET to_serialize == [plugin_enabled |-> plugin_settings.enabled,
                         events_settings |-> all_settings]
    IN /\ file' = serialize_settings(file, to_serialize, outcome)
       /\ emitted' = IF outcome = "ok" THEN <<>>
                     ELSE <<log(Level_ERROR,
                                could_not_save(plugin_settings.saved_settings, outcome))>>
       /\ saves' = saves + 1
       /\ save_ok' = (outcome = "ok")
       /\ last' = Op("save_settings", NoName, outcome, outcome = "ok")

\* PostUpdate reaches save_settings.run_if(on_event::<AppExit>): the system runs
\* iff an AppExit event was written since the condition was last evaluated.
\* What runs after it (the rest of PostUpdate, then Last) is stage "Last".
RunSaveSettings ==
    /\ stage = "PostUpdate"
    /\ stage' = "Last"
    /\ IF app_exit
       THEN \E outcome \in SaveOutcomes : save_settings(outcome)
       ELSE /\ last' = Op("skip_save_settings", NoName, "", FALSE)
            /\ emitted' = <<>>
            /\ UNCHANGED <<file, saves, save_ok>>
    /\ UNCHANGED <<plugin_settings, log_settings_ids, resources, app_exit,
                   warnings, run, edits, prev_run, wired, track_location,
                   window_state, displayed, events, reader, skipped>>

\* ---------------------------------------------------------------- dispatch
\* Entity::PLACEHOLDER (the target of a trigger without entity), the entities
\* of the World, and the Name an entity may have
Entity_PLACEHOLDER == "Entity::PLACEHOLDER"
Entities == {"4v1"}
EntityNames == {<<>>, <<"MyEntity">>}

\* the live EventSettings of a registered name, through the id the registry
\* holds for it (get_log_settings_by_id)
settings_of(name) == resources[log_settings_ids[name].id]

\* the EventSettings a dispatch system or observer of a call reads:
\* Res<LoggedEventSettings<E, C>>
res_settings(call) == resources[call.id]

\* the log_event::<E> systems the calls added to LogEventsSet, one for every
\* log_event call
log_event_systems ==
    UNION {{<<call, i>> : i \in 1..wired[call]} :
            call \in {c \in RegistrationCalls : c.method = "log_event"}}

\* n copies of a sequence, one after the other
RECURSIVE Repeat(_, _)
Repeat(seq, n) == IF n = 0 THEN <<>> ELSE seq \o Repeat(seq, n - 1)

plugin_enabled_always == TRUE

\* run condition plugin_enabled of LogEventsSet
plugin_enabled == plugin_settings.enabled

\* MaybeLocation::caller: the place of the send or trigger call when the host
\* is built with the track_location feature, else nothing
MaybeLocation_caller == IF track_location THEN <<"src/main.rs:7:5">> ELSE <<>>

\* the value of an event or component: a tuple struct around one integer, the
\* id of the instance for an event of the queue
payload(object) == IF Len(object) = 2 THEN object[2] ELSE 0

\* derived Debug of the value, "{:?}"
Debug_compact(object) == object[1] \o "(" \o ToString(payload(object)) \o ")"

\* derived Debug of the value, "{:#?}"
Debug_pretty(object) == object[1] \o "(\n    " \o ToString(payload(object)) \o ",\n)"

\* " at {location}" when the location is known
write_location(location) == IF location # <<>> THEN " at " \o location[1] ELSE ""

\* format_event: "<name>[ at <location>]: <event>", the event in pretty or
\* compact debug form; text is the String, the other fields keep its parts
format_event(settings, name, event, location) ==
    [name |-> name, on |-> <<>>, pretty |-> settings.pretty, object |-> event,
     text |-> name \o write_location(location) \o ": "
                \o (IF settings.pretty THEN Debug_pretty(event) ELSE Debug_compact(event))]

format_entity_and_object_name_only(settings, event_name, entity_name, entity, object, location) ==
    [name |-> event_name,
     on |-> IF entity_name # <<>> THEN <<entity_name[1], entity>> ELSE <<entity>>,
     pretty |-> settings.pretty,
     object |-> object,
     text |-> event_name \o " on "
                \o (IF entity_name # <<>> THEN entity_name[1] ELSE entity)
                \o write_location(location) \o ": "
                \o (IF settings.pretty THEN Debug_pretty(object) ELSE Debug_compact(object))]

\* format_entity_and_object: "<event_name> on <name>(<entity>)[ at <location>]:
\* <object>", or "<event_name> on <entity>[ at <location>]: <object>" for an
\* entity without Name
format_entity_and_object(settings, event_name, entity_name, entity, object, location) ==
    [name |-> event_name,
     on |-> IF entity_name # <<>> THEN <<entity_name[1], entity>> ELSE <<entity>>,
     pretty |-> settings.pretty,
     object |-> object,
     text |-> event_name \o " on "
                \o (IF entity_name # <<>>
                    THEN entity_name[1] \o "(" \o entity \o ")"
                    ELSE entity)
                \o write_location(location) \o ": "
                \o (IF settings.pretty THEN Debug_pretty(object) ELSE Debug_compact(object))]

\* Events<E>::send: the instance gets the running count as its id
Events_send(ev) ==
    [ev EXCEPT !.b = Append(@, ev.event_count), !.event_count = @ + 1]

\* Events<E>::update (First schedule of every tick): the older buffer is dropped
Events_update(ev) == [ev EXCEPT !.a = ev.b, !.b = <<>>]

unread_newest_only(ev, cursor) == SelectSeq(ev.b, LAMBDA id : id >= cursor)

\* EventReader::read_with_id: the instances not read yet, oldest first
unread(ev, cursor) == SelectSeq(ev.a \o ev.b, LAMBDA id : id >= cursor)

log_event_lines_until_failure(call, bad) ==
    LET settings == res_settings(call)
        name == call.name
        all == unread(events[name], reader[name])
        stop == IF \E i \in DOMAIN all : all[i] \in bad
                THEN CHOOSE i \in DOMAIN all :
                        all[i] \in bad /\ \A j \in 1..(i - 1) : all[j] \notin bad
                ELSE Len(all) + 1
        ids == SubSeq(all, 1, stop - 1)
    IN IF ~settings.enabled THEN <<>>
       ELSE [i \in 1..Len(ids) |->
                log(settings.level, format_event(settings, name, <<"event", ids[i]>>, MaybeLocation_caller))]

\* log_event::<E>, the system of a log_event call: the lines it emits; bad
\* holds the instances whose Debug formatting fails
log_event_lines(call, bad) ==
    LET settings == res_settings(call)
        name == call.name
        ids == SelectSeq(unread(events[name], reader[name]), LAMBDA id : id \notin bad)
    IN IF ~settings.enabled THEN <<>>
       ELSE [i \in 1..Len(ids) |->
                log(settings.level, format_event(settings, name, <<"event", ids[i]>>, MaybeLocation_caller))]

\* log_event::<E>: the cursor it leaves (nothing is read when it returns early)
log_event_cursor(call) ==
    IF ~res_settings(call).enabled THEN reader[call.name]
    ELSE events[call.name].event_count

\* the instances the log_event systems of calls are about to read
pending(calls) ==
    UNION {{unread(events[c.name], reader[c.name])[i] :
                i \in 1..Len(unread(events[c.name], reader[c.name]))} :
            c \in {call \in calls : res_settings(call).enabled}}

\* the instances the log_event systems of calls leave unread because the run
\* condition of the set or the enabled flag of their type is false
declined(calls) ==
    UNION {{<<c.name, unread(events[c.name], reader[c.name])[i]>> :
                i \in 1..Len(unread(events[c.name], reader[c.name]))} :
            c \in {call \in calls : ~plugin_settings.enabled \/ ~res_settings(call).enabled}}

\* the enumerations of a finite set
Orders(S) == {f \in [1..Cardinality(S) -> S] : \A i, j \in DOMAIN f : f[i] = f[j] => i = j}

RECURSIVE Flatten(_)
Flatten(seqs) == IF seqs = <<>> THEN <<>> ELSE Head(seqs) \o Flatten(Tail(seqs))

\* the enabled checkbox of one entry of the settings window
EditEnabled ==
    \E name \in DOMAIN log_settings_ids, b \in BOOLEAN : edit_settings(name, "enabled", b)

\* the pretty checkbox of one entry of the settings window
EditPretty ==
    \E name \in DOMAIN log_settings_ids, b \in BOOLEAN : edit_settings(name, "pretty", b)

\* an application system writes an event of type name to its queue
SendEvent ==
    /\ stage \in TickStages
    /\ \E name \in EventNames :
        /\ events[name].event_count < MaxEvents
        /\ events' = [events EXCEPT ![name] = Events_send(@)]
        /\ last' = Op("send_event", name, "", TRUE)
    /\ emitted' = <<>>
    /\ UNCHANGED <<file, plugin_settings, log_settings_ids, resources, stage,
                   app_exit, saves, save_ok, warnings, run, edits, prev_run, wired, track_location,
                   window_state, displayed, reader,
                   skipped>>

\* the Last schedule runs LogEventsSet: when plugin_enabled holds, every
\* log_event::<E> system the calls added to the set, in an order the scheduler
\* chooses; each system has an EventReader of its own, and the readers of the
\* systems of one type move together
RunLogEventsSet ==
    /\ stage = "Last"
    /\ stage' = "LastDone"
    /\ LET systems == log_event_systems
           calls == {system[1] : system \in systems}
       IN
       IF plugin_enabled
       THEN \E order \in Orders(systems), bad \in SUBSET pending(calls) :
                /\ emitted' = Flatten([i \in DOMAIN order |-> log_event_lines(order[i][1], bad)])
                /\ reader' = [e \in EventNames |->
                                IF \E call \in calls : call.name = e
                                THEN log_event_cursor(CHOOSE call \in calls : call.name = e)
                                ELSE reader[e]]
                /\ last' = [Op("log_events_set", NoName, "", TRUE) EXCEPT !.failed = bad]
       ELSE /\ emitted' = <<>>
            /\ last' = Op("log_events_set", NoName, "", FALSE)
            /\ UNCHANGED reader
    /\ skipped' = skipped \cup declined({system[1] : system \in log_event_systems})
    /\ UNCHANGED <<file, plugin_settings, log_settings_ids, resources, app_exit,
                   saves, save_ok, warnings, run, edits, prev_run, wired, track_location,
                   window_state, displayed, events>>

log_triggered_ungated(call, target, entity_name, fmt_ok) ==
    LET settings == res_settings(call)
        name == call.name
    IN
    IF ~plugin_settings.enabled THEN <<>>
    ELSE IF target # Entity_PLACEHOLDER
    THEN IF fmt_ok
         THEN <<log(settings.level,
                    format_entity_and_object(settings, name, entity_name, target, <<"event">>,
                                             MaybeLocation_caller))>>
         ELSE <<>>
    ELSE IF fmt_ok
         THEN <<log(settings.level, format_event(settings, name, <<"event">>, MaybeLocation_caller))>>
         ELSE <<>>

\* log_triggered::<E>: an observer a log_triggered call spawned
log_triggered(call, target, entity_name, fmt_ok) ==
    LET settings == res_settings(call)
        name == call.name
    IN
    IF ~plugin_settings.enabled \/ ~settings.enabled THEN <<>>
    ELSE IF target # Entity_PLACEHOLDER
    THEN IF fmt_ok
         THEN <<log(settings.level,
                    format_entity_and_object(settings, name, entity_name, target, <<"event">>,
                                             MaybeLocation_caller))>>
         ELSE <<>>
    ELSE IF fmt_ok
         THEN <<log(settings.level, format_event(settings, name, <<"event">>, MaybeLocation_caller))>>
         ELSE <<>>

\* a system of the application (in Startup or in a tick) triggers an event of
\* a type that log_triggered was called for, globally or targeting an entity:
\* every observer the calls spawned runs at once
Trigger ==
    /\ stage \in {"Startup"} \cup TickStages
    /\ \E call \in RegistrationCalls, target \in Entities \cup {Entity_PLACEHOLDER},
          entity_name \in EntityNames, fmt_ok \in BOOLEAN :
        /\ call.method = "log_triggered"
        /\ wired[call] > 0
        /\ target = Entity_PLACEHOLDER => entity_name = <<>>
        /\ emitted' = Repeat(log_triggered(call, target, entity_name, fmt_ok), wired[call])
        /\ last' = Op("log_triggered", call.name, call.id, fmt_ok)
    /\ UNCHANGED <<file, plugin_settings, log_settings_ids, resources, stage,
                   app_exit, saves, save_ok, warnings, run, edits, prev_run, wired, track_location,
                   window_state, displayed,
                   events, reader, skipped>>

\* log_component::<E, C>: an observer a log_trigger call spawned; has_component
\* tells whether query.get(target) finds a C on the target
log_component(call, target, has_component, entity_name, fmt_ok) ==
    LET settings == res_settings(call)
        name == call.name
    IN
    IF ~plugin_settings.enabled \/ ~settings.enabled THEN <<>>
    ELSE IF has_component /\ fmt_ok
    THEN <<log(settings.level,
               format_entity_and_object(settings, name, entity_name, target, <<"component">>,
                                        MaybeLocation_caller))>>
    ELSE <<>>

TriggerComponent_mutes_type ==
    /\ stage \in {"Startup"} \cup TickStages
    /\ \E call \in RegistrationCalls, target \in Entities \cup {Entity_PLACEHOLDER},
          has_component \in BOOLEAN, entity_name \in EntityNames, fmt_ok \in BOOLEAN :
        /\ call.method = "log_trigger"
        /\ wired[call] > 0
        /\ target = Entity_PLACEHOLDER => (entity_name = <<>> /\ ~has_component)
        /\ emitted' = Repeat(log_component(call, target, has_component, entity_name, fmt_ok),
                             wired[call])
        /\ resources' = [resources EXCEPT ![call.id].enabled = FALSE]
        /\ last' = Op("log_component", call.name, call.id, has_component /\ fmt_ok)
    /\ UNCHANGED <<file, plugin_settings, log_settings_ids, stage,
                   app_exit, saves, save_ok, warnings, run, edits, prev_run, wired, track_location,
                   window_state, displayed,
                   events, reader, skipped>>

\* the host delivers a lifecycle notification (or the application triggers the
\* event) of a pair that log_trigger was called for, in Startup or in a tick:
\* every observer the calls spawned runs at once
TriggerComponent ==
    /\ stage \in {"Startup"} \cup TickStages
    /\ \E call \in RegistrationCalls, target \in Entities \cup {Entity_PLACEHOLDER},
          has_component \in BOOLEAN, entity_name \in EntityNames, fmt_ok \in BOOLEAN :
        /\ call.method = "log_trigger"
        /\ wired[call] > 0
        /\ target = Entity_PLACEHOLDER => (entity_name = <<>> /\ ~has_component)
        /\ emitted' = Repeat(log_component(call, target, has_component, entity_name, fmt_ok),
                             wired[call])
        /\ last' = Op("log_component", call.name, call.id, has_component /\ fmt_ok)
    /\ UNCHANGED <<file, plugin_settings, log_settings_ids, resources, stage,
                   app_exit, saves, save_ok, warnings, run, edits, prev_run, wired, track_location,
                   window_state, displayed,
                   events, reader, skipped>>

\* the tick is over: the runner leaves the loop when an AppExit event was sent
\* (App::should_exit), else it runs the next tick
EndTick ==
    /\ stage = "LastDone"
    /\ stage' = IF app_exit THEN "Exited" ELSE "Update"
    /\ events' = IF app_exit THEN events
                 ELSE [e \in EventNames |-> Events_update(events[e])]
    /\ emitted' = <<>>
    /\ skipped' = IF app_exit THEN skipped
                  ELSE {s \in skipped : \E i \in DOMAIN events[s[1]].b : events[s[1]].b[i] = s[2]}
    /\ last' = Op("end_tick", NoName, "", TRUE)
    /\ UNCHANGED <<file, plugin_settings, log_settings_ids, resources, app_exit,
                   saves, save_ok, warnings, run, edits, prev_run, wired, track_location,
                   window_state, displayed, reader>>

\* ------------------------------------------------------------ between runs
\* while no process runs, the file is deleted, made unreadable, overwritten
\* with text that is not a LoggedEventsSettings, or hand-edited into an
\* unknown level name
DamageFile ==
    /\ stage = "Exited"
    /\ \E f \in {FileMissing, FileUnreadable, FileMalformed} \cup BadLevelFiles(file) :
        /\ file # f
        /\ file' = f
    /\ save_ok' = FALSE
    /\ last' = Op("damage_file", NoName, "", TRUE)
    /\ UNCHANGED <<plugin_settings, log_settings_ids, resources, stage, app_exit,
                   saves, warnings, run, edits, prev_run, wired, track_location,
                   window_state, displayed>>
    /\ NoDispatch

\* the application (this or another build of it, making no call twice) is
\* started again: LogEventsPlugin::build on a fresh World, then its LogEvent
\* calls
Restart ==
    /\ stage = "Exited"
    /\ run < MaxRuns
    /\ plugin_settings' = LogEventsPluginSettings_new(settings_path, file).settings
    /\ warnings' = LogEventsPluginSettings_new(settings_path, file).warned
    /\ wired' \in Profiles(MainCalls, 1)
    /\ log_settings_ids' = NoIds
    /\ resources' = inserted_resources(wired')
    /\ stage' = "Startup"
    /\ app_exit' = FALSE
    /\ saves' = 0
    /\ save_ok' = FALSE
    /\ run' = run + 1
    /\ UNCHANGED edits
    /\ prev_run' =
        [exists |-> TRUE,
         enabled |-> plugin_settings.enabled,
         live |-> all_settings,
         saved |-> save_ok,
         latest |-> [n \in DOMAIN prev_run.latest \cup DOMAIN all_settings |->
                        IF n \in DOMAIN all_settings THEN all_settings[n]
                        ELSE prev_run.latest[n]],
         all_saved |-> prev_run.all_saved /\ save_ok]
    /\ last' = Op("build", NoName, "", warnings' = 0)
    /\ events' = NoEvents
    /\ reader' = [e \in EventNames |-> 0]
    /\ emitted' = <<>>
    /\ skipped' = {}
    /\ window_state' = LogEventsWindowState_default
    /\ displayed' = <<>>
    /\ UNCHANGED <<file, track_location>>

\* one run of the application, from plugin build to process end
Next ==
    \/ Register
    \/ EditSettings
    \/ EditPluginEnabled
    \/ StartupDone
    \/ SendAppExit
    \/ EnterPostUpdate
    \/ RunSaveSettings
    \/ RunLogEventsSet
    \/ EndTick

Spec == Init /\ [][Next]_vars

\* runs of the application one after the other on the same settings file
NextRestarts ==
    \/ Register
    \/ EditSettings
    \/ EditPluginEnabled
    \/ StartupDone
    \/ SendAppExit
    \/ EnterPostUpdate
    \/ RunSaveSettings
    \/ RunLogEventsSet
    \/ EndTick
    \/ DamageFile
    \/ Restart

SpecRestarts == InitFresh /\ [][NextRestarts]_vars

\* one run of an application that repeats LogEvent calls
SpecCalls == InitCalls /\ [][Next]_vars

\* one run of an application that sends and triggers the events it logs
NextDispatch ==
    \/ Register
    \/ EditSettings
    \/ EditPluginEnabled
    \/ StartupDone
    \/ EnterPostUpdate
    \/ RunSaveSettings
    \/ SendEvent
    \/ Trigger
    \/ TriggerComponent
    \/ RunLogEventsSet
    \/ EndTick

SpecDispatch == InitDispatch /\ [][NextDispatch]_vars

\* a process that is going to send and trigger events starts on a machine
\* without settings file
InitLive == InitFrom({FileMissing}, DispatchProfiles)

\* hosts built with and without the track_location feature
InitFormat == InitWith({FileMissing}, DispatchProfiles, BOOLEAN)

\* the dispatches of a run, the pretty checkboxes being the only settings the
\* user touches
NextFormat ==
    \/ Register
    \/ EditPretty
    \/ StartupDone
    \/ EnterPostUpdate
    \/ RunSaveSettings
    \/ SendEvent
    \/ Trigger
    \/ TriggerComponent
    \/ RunLogEventsSet
    \/ EndTick

SpecFormat == InitFormat /\ [][NextFormat]_vars

\* the file an earlier run left whose user had made one type quiet
PanelFile ==
    FileRon(serialize([plugin_enabled |-> TRUE,
                       events_settings |-> [n \in EventNames |-> QuietSettings]]))

\* a process whose user works with the settings panel
InitPanel == InitFrom({PanelFile}, DispatchProfiles)

\* the registrations, the first tick and the passes of the panel
NextPanel ==
    \/ Register
    \/ StartupDone
    \/ log_events_window_ui

SpecPanel == InitPanel /\ [][NextPanel]_vars

\* the dispatches and the save of a run that the application ends
NextEffects ==
    \/ Register
    \/ EditEnabled
    \/ EditPluginEnabled
    \/ StartupDone
    \/ SendAppExit
    \/ EnterPostUpdate
    \/ RunSaveSettings
    \/ SendEvent
    \/ Trigger
    \/ TriggerComponent
    \/ RunLogEventsSet
    \/ EndTick

SpecEffects == InitLive /\ [][NextEffects]_vars

\* the same run under the scheduling of the host: the runner runs the Startup
\* schedule to its end, then tick after tick, each schedule of a tick to its
\* end
\* the same run, the enabled checkboxes being the only settings the user touches
NextLive ==
    \/ Register
    \/ EditEnabled
    \/ EditPluginEnabled
    \/ StartupDone
    \/ EnterPostUpdate
    \/ RunSaveSettings
    \/ SendEvent
    \/ Trigger
    \/ RunLogEventsSet
    \/ EndTick

SpecLive ==
    /\ InitLive
    /\ [][NextLive]_vars
    /\ WF_vars(Register)
    /\ WF_vars(StartupDone)
    /\ WF_vars(EnterPostUpdate)
    /\ WF_vars(RunSaveSettings)
    /\ WF_vars(RunLogEventsSet)
    /\ WF_vars(EndTick)

\* one run of an application that logs two event types of the same identifier
SpecNames == InitNames /\ [][Next]_vars

\* one run of an application that repeats LogEvent calls and sends and
\* triggers the events it logs
SpecWiring == InitWiring /\ [][NextDispatch]_vars

TypeOK ==
    /\ file.status \in {"missing", "unreadable", "malformed", "ron"}
    /\ plugin_settings.enabled \in BOOLEAN
    /\ DOMAIN plugin_settings.previous_settings \subseteq Names
    /\ DOMAIN log_settings_ids \subseteq AllNames
    /\ wired \in [RegistrationCalls -> 0..MaxCalls]
    /\ \A n \in DOMAIN log_settings_ids : resources[log_settings_ids[n].id] \in EventSettings
    /\ stage \in {"Startup", "Exited"} \cup TickStages
    /\ run \in 1..MaxRuns

\* ------------------------------------------------------------------ claims
\* the steps that are a logging dispatch
DispatchOps == {"log_events_set", "log_triggered", "log_component"}

\* the file cannot be loaded: it cannot be opened or parsed, or one of its
\* level strings is none of the five names
LoadFails ==
    \/ file.status # "ron"
    \/ \E n \in DOMAIN file.text.events_settings :
            file.text.events_settings[n].level \notin LevelStrings

\* C1: a register call for a name that is already in the registry, for the
\* same kind or for the other kind, leaves the live EventSettings of that
\* name as they were.
C1_ReRegistrationKeepsLiveValue ==
    [][\A n \in DOMAIN log_settings_ids :
            (last'.op = "register_event" /\ last'.name = n)
                => resources'[log_settings_ids[n].id] = resources[log_settings_ids[n].id]]_vars

\* C2: a second register call for the same name and kind returns false and
\* leaves the registry and the settings as the first call left them; a first
\* call returns true; after either, the name has its one entry holding the kind.
C2_RegisterTwice ==
    [][last'.op = "register_event" =>
        LET n == last'.name
            k == last'.kind
            was == n \in DOMAIN log_settings_ids /\ k \in log_settings_ids[n].kind
        IN /\ last'.result = ~was
           /\ DOMAIN log_settings_ids' = DOMAIN log_settings_ids \cup {n}
           /\ k \in log_settings_ids'[n].kind
           /\ was => /\ log_settings_ids' = log_settings_ids
                     /\ resources' = resources
                     /\ plugin_settings' = plugin_settings]_vars

\* C2 witness: a register call found its name and kind registered, after the
\* live value had been edited away from what registration gave it
C2_Witness ==
    /\ last.op = "register_event"
    /\ ~last.result
    /\ resources[log_settings_ids[last.name].id] #
        IF last.name \in DOMAIN plugin_settings.previous_settings
        THEN plugin_settings.previous_settings[last.name]
        ELSE EventSettings_default

\* C3: right after a register call that creates a type, its EventSettings are
\* the snapshot's entry for its name if there is one, else the default.
C3_CreatedValueIsRestoredOrDefault ==
    (last.op = "register_event" /\ last.result) =>
        resources[log_settings_ids[last.name].id] =
            IF last.name \in DOMAIN plugin_settings.previous_settings
            THEN plugin_settings.previous_settings[last.name]
            ELSE [enabled |-> TRUE, pretty |-> TRUE, level |-> Level_INFO]

\* C3 witness: a type was created from a snapshot entry that is not the default
C3_Witness ==
    /\ last.op = "register_event"
    /\ last.result
    /\ last.name \in DOMAIN plugin_settings.previous_settings
    /\ plugin_settings.previous_settings[last.name] # EventSettings_default
    /\ resources[log_settings_ids[last.name].id] = plugin_settings.previous_settings[last.name]

\* C4: when the previous run ended through the exit notification with a
\* successful save, the global flag after startup and the EventSettings of a
\* type right after its registration equal their live values at the end of
\* that run.
C4_SecondRunSeesEndOfFirst ==
    (prev_run.exists /\ prev_run.saved) =>
        /\ last.op = "build" => plugin_settings.enabled = prev_run.enabled
        /\ (last.op = "register_event" /\ last.result
                /\ last.name \in DOMAIN prev_run.live)
            => resources[log_settings_ids[last.name].id] = prev_run.live[last.name]

\* C5: over runs that each ended with a successful exit-save, the value
\* restored for a type at registration is its live value at the end of the
\* most recent earlier run in which it was registered.
C5_EditsSurviveRestarts ==
    (prev_run.exists /\ prev_run.all_saved
        /\ last.op = "register_event" /\ last.result
        /\ last.name \in DOMAIN prev_run.latest)
    => resources[log_settings_ids[last.name].id] = prev_run.latest[last.name]

\* C6: loading what save wrote yields the global flag and the name -> settings
\* mapping that were saved, for the live state of every save and for every
\* EventSettings value; deserialize_level inverts serialize_level.
C6_SaveLoadRoundTrip ==
    /\ (last.op = "save_settings" /\ last.result) =>
        /\ load_saved_settings(settings_path, file).ok
        /\ load_saved_settings(settings_path, file).new.enabled = plugin_settings.enabled
        /\ load_saved_settings(settings_path, file).new.previous_settings = all_settings
    /\ last.op = "save_settings" =>
        /\ \A b \in BOOLEAN, v \in EventSettings :
            LET snapshot == [plugin_enabled |-> b, events_settings |-> [n \in Names |-> v]]
            IN deserialize(serialize(snapshot)) = [ok |-> TRUE, value |-> snapshot]
        /\ \A l \in ALL_LEVELS :
            deserialize_level(serialize_level(l)) = [ok |-> TRUE, level |-> l]

\* C6 witness: a save wrote a type whose level is not the default one
C6_Witness ==
    /\ last.op = "save_settings"
    /\ last.result
    /\ \E n \in DOMAIN all_settings : all_settings[n].level # Level_INFO

\* C7: a dispatch made while the global flag is false emits no line, on the
\* polled path, the trigger path and the lifecycle path alike.
C7_GlobalGate ==
    (last.op \in DispatchOps /\ ~plugin_settings.enabled) => emitted = <<>>

\* C7 witness: the polled dispatch came up with the global flag off, the type
\* enabled and an instance waiting in the queue
C7_Witness ==
    /\ last.op = "log_events_set"
    /\ ~plugin_settings.enabled
    /\ \E e \in EventNames :
        /\ registered(log_settings_ids, e, EVENT)
        /\ settings_of(e).enabled
        /\ unread(events[e], reader[e]) # <<>>

\* the instances of event type e among the lines of a polled dispatch
PolledIds(lines, e) ==
    LET mine == SelectSeq(lines, LAMBDA line : line.to_log.name = e)
    IN [i \in 1..Len(mine) |-> mine[i].to_log.object[2]]

\* C8: with the global flag true, a dispatch for a type whose enabled flag is
\* false emits nothing for it, a dispatch for a type whose enabled flag is
\* true emits its lines whatever the flags of the other types are, and an
\* edit of one type's settings leaves the settings of every other type alone.
C8_PerTypeGate ==
    [][/\ (last'.op = "log_events_set" /\ plugin_settings.enabled) =>
            \A e \in EventNames :
                /\ (e \in DOMAIN log_settings_ids /\ ~resources[log_settings_ids[e].id].enabled)
                    => PolledIds(emitted', e) = <<>>
                /\ (e \in DOMAIN log_settings_ids /\ EVENT \in log_settings_ids[e].kind
                        /\ resources[log_settings_ids[e].id].enabled)
                    => PolledIds(emitted', e) =
                         SelectSeq(unread(events[e], reader[e]),
                                   LAMBDA id : id \notin last'.failed)
       /\ (last'.op \in {"log_triggered", "log_component"} /\ plugin_settings.enabled) =>
            IF resources[last'.kind].enabled /\ last'.result
            THEN Len(emitted') = 1 /\ emitted'[1].to_log.name = last'.name
            ELSE emitted' = <<>>
       /\ last'.op = "edit_settings" =>
            /\ plugin_settings' = plugin_settings
            /\ \A n \in DOMAIN log_settings_ids \ {last'.name} :
                    resources'[log_settings_ids[n].id] = resources[log_settings_ids[n].id]]_vars

\* C8 witness: a trigger of an enabled type was logged while the other
\* registered type had its enabled flag off
C8_Witness ==
    /\ last.op = "log_triggered"
    /\ plugin_settings.enabled
    /\ emitted # <<>>
    /\ \E n \in DOMAIN log_settings_ids \ {last.name} : ~settings_of(n).enabled

\* C9: a run that the exit notification ended ran save_settings exactly once,
\* whichever stage of the final tick raised the notification.
C9_SaveRunsOnceOnExit ==
    stage = "Exited" => saves = 1

\* C10: a startup whose load fails emits one warning and leaves the plugin
\* settings {enabled: true, empty snapshot, the same path}; every type created
\* in that run starts from the default EventSettings.
C10_LoadFailureIsFreshStart ==
    /\ (last.op = "build" /\ LoadFails) =>
        /\ warnings = 1
        /\ plugin_settings.enabled
        /\ plugin_settings.previous_settings = EmptyMap
        /\ plugin_settings.saved_settings = settings_path
    /\ (last.op = "register_event" /\ last.result /\ stage = "Startup" /\ LoadFails) =>
        resources[log_settings_ids[last.name].id] = EventSettings_default

\* C10 witness: a type is created at the default in a run whose file could
\* not be loaded although it holds an entry for that type with enabled off
C10_Witness ==
    /\ last.op = "register_event"
    /\ last.result
    /\ LoadFails
    /\ warnings = 1
    /\ file.status = "ron"
    /\ last.name \in DOMAIN file.text.events_settings
    /\ ~file.text.events_settings[last.name].enabled
    /\ resources[log_settings_ids[last.name].id] = EventSettings_default

\* the file holds RON text in which some entry has a level string that is none
\* of the five names
BadLevel ==
    /\ file.status = "ron"
    /\ \E n \in DOMAIN file.text.events_settings :
            file.text.events_settings[n].level \notin {"ERROR", "WARN", "INFO", "DEBUG", "TRACE"}

\* C11: when an entry of the settings file has a level string that is none of
\* the five names, the load fails as a whole: the snapshot the plugin keeps is
\* empty, the global flag is true, and every type created in that startup,
\* also one whose own entry is valid, gets the default EventSettings.
C11_BadLevelFailsWholeLoad ==
    /\ (BadLevel /\ stage = "Startup" /\ edits = 0) =>
        /\ plugin_settings.previous_settings = EmptyMap
        /\ plugin_settings.enabled
        /\ warnings = 1
    /\ (BadLevel /\ last.op = "register_event" /\ last.result) =>
        resources[log_settings_ids[last.name].id] = EventSettings_default

\* C11 witness: the file says the global flag is off and holds a valid quiet
\* entry for a type next to an entry with a bad level; the type was created
\* at the default
C11_Witness ==
    /\ BadLevel
    /\ ~file.text.plugin_enabled
    /\ last.op = "register_event"
    /\ last.result
    /\ last.name \in DOMAIN file.text.events_settings
    /\ file.text.events_settings[last.name] = serialize_event_settings(QuietSettings)
    /\ resources[log_settings_ids[last.name].id] = EventSettings_default
    /\ plugin_settings.enabled

\* C12: a save_settings whose serialize_settings fails, before or after the
\* file was created, emits one error line and nothing else, the schedule goes
\* on to the end of the tick and the exit, and the registry, the live
\* EventSettings and the plugin settings are as they were.
C12_SaveFailureIsLoggedAndSwallowed ==
    [][(last'.op = "save_settings" /\ ~last'.result) =>
        /\ Len(emitted') = 1
        /\ emitted'[1].level = Level_ERROR
        /\ stage' = "Last"
        /\ app_exit' = app_exit
        /\ log_settings_ids' = log_settings_ids
        /\ resources' = resources
        /\ plugin_settings' = plugin_settings]_vars

\* C12 witness: the process has ended after its save failed, with a type
\* registered
C12_Witness ==
    /\ stage = "Exited"
    /\ saves = 1
    /\ ~save_ok
    /\ DOMAIN log_settings_ids # {}

\* the calls the application made
WiredCalls == {call \in RegistrationCalls : wired[call] > 0}

\* C13: a line for a type is emitted by an observer only after the
\* registration of the type (with the restore from the snapshot) has run, and
\* a type whose snapshot entry has enabled = false emits nothing as long as no
\* setting was edited, also for a trigger or lifecycle notification in Startup.
C13_NoLineBeforeRegistration ==
    (last.op \in {"log_triggered", "log_component"} /\ emitted # <<>>) =>
        /\ registered(log_settings_ids, last.name, TRIGGER)
        /\ (edits = 0 /\ last.name \in DOMAIN plugin_settings.previous_settings)
            => plugin_settings.previous_settings[last.name].enabled

\* C14: two calls the application made for different types (another event
\* type, or another (event, component) pair) register different names, so
\* that after Startup each of them has the registry entry of its own resource.
C14_DistinctRegistrationsDistinctKeys ==
    \A c1, c2 \in WiredCalls :
        c1.id # c2.id =>
            /\ c1.name # c2.name
            /\ stage # "Startup" =>
                /\ log_settings_ids[c1.name].id = c1.id
                /\ log_settings_ids[c2.name].id = c2.id

\* the lines of a polled dispatch name no instance of an event type twice
NoInstanceTwice(lines) ==
    \A e \in EventNames :
        \A i, j \in DOMAIN PolledIds(lines, e) :
            PolledIds(lines, e)[i] = PolledIds(lines, e)[j] => i = j

\* C15: also when the application made a LogEvent call twice, once every
\* registration has run, a triggered instance produces at most one line and a
\* polled dispatch emits at most one line for each instance of the queue.
C15_DuplicateCallWiresNothing ==
    stage \in TickStages =>
        /\ last.op \in {"log_triggered", "log_component"} => Len(emitted) <= 1
        /\ last.op = "log_events_set" => NoInstanceTwice(emitted)

\* the event type the application logs on both paths
Both == LogEvent_log_event(Foo).name

\* C16: with an event type registered for polled and for triggered logging,
\* once every registration has run, a trigger emits at most one line, which
\* is the observer's, and leaves the queue and the reader alone; a polled
\* dispatch emits lines only for instances of the queue, each once, and moves
\* the reader past them, and the reader never moves back: no instance is
\* logged twice.
C16_NoInstanceLoggedTwice ==
    [][(/\ registered(log_settings_ids, Both, EVENT)
        /\ registered(log_settings_ids, Both, TRIGGER)
        /\ stage \in TickStages) =>
        /\ last'.op = "log_triggered" =>
             /\ Len(emitted') <= 1
             /\ \A i \in DOMAIN emitted' : emitted'[i].to_log.object = <<"event">>
             /\ events' = events
             /\ reader' = reader
        /\ last'.op = "log_events_set" =>
             /\ NoInstanceTwice(emitted')
             /\ \A i \in DOMAIN emitted' :
                     /\ emitted'[i].to_log.name = Both
                     /\ Len(emitted'[i].to_log.object) = 2
                     /\ emitted'[i].to_log.object[2] >= reader[Both]
                     /\ emitted'[i].to_log.object[2] < reader'[Both]
        /\ reader'[Both] >= reader[Both]]_vars

\* C17: the registry holds for every registered event type the resource its
\* dispatch systems read; the polled and the triggered call of one event type
\* read the same resource, a pair reads one that no other type reads; an edit
\* of a name changes what the calls that read its resource read, and nothing
\* that any other call reads.
C17_OneSettingsValuePerType ==
    [][/\ \A c \in {call \in WiredCalls : call.method # "log_trigger"} :
            c.name \in DOMAIN log_settings_ids' => log_settings_ids'[c.name].id = c.id
       /\ LogEvent_log_event(Foo).id = LogEvent_log_triggered(Foo).id
       /\ \A c1 \in {c \in RegistrationCalls : c.method = "log_trigger"} :
            \A c2 \in RegistrationCalls \ {c1} : c1.id # c2.id
       /\ last'.op = "edit_settings" =>
            \A c \in WiredCalls :
                IF c.id = log_settings_ids[last'.name].id
                THEN resources'[c.id] # resources[c.id]
                ELSE resources'[c.id] = resources[c.id]]_vars

\* C17 witness: the event type is registered on both paths, it was switched
\* off by an edit, and a trigger of it was then not logged although the
\* global flag is on
C17_Witness ==
    /\ last.op = "log_triggered"
    /\ last.name = Both
    /\ last.result
    /\ plugin_settings.enabled
    /\ emitted = <<>>
    /\ edits = 1
    /\ log_settings_ids[Both].kind = {EVENT, TRIGGER}
    /\ Both \notin DOMAIN plugin_settings.previous_settings

\* C18: when the process has ended after a successful save, the file holds
\* the live state: the global flag and the EventSettings of every registered
\* name as they are at process end.
C18_SavedFileIsFinalState ==
    (stage = "Exited" /\ save_ok) =>
        file = FileRon(serialize([plugin_enabled |-> plugin_settings.enabled,
                                  events_settings |-> all_settings]))

\* C19: an instance that a polled dispatch declined, because the global flag
\* or the enabled flag of its type was false, is in no line of a later
\* dispatch.
C19_SkippedIsNeverLogged ==
    [][last'.op = "log_events_set" =>
        \A i \in DOMAIN emitted' :
            <<emitted'[i].to_log.name, emitted'[i].to_log.object[2]>> \notin skipped]_vars

\* C20: right after a save that succeeded, the file's events_settings have
\* the names of the registry as keys, each with the serialized live
\* EventSettings of that name, and its plugin_enabled is the global flag.
C20_SnapshotIsLiveState ==
    (last.op = "save_settings" /\ last.result) =>
        /\ file.status = "ron"
        /\ DOMAIN file.text.events_settings = DOMAIN log_settings_ids
        /\ \A n \in DOMAIN log_settings_ids :
                file.text.events_settings[n] =
                    serialize_event_settings(resources[log_settings_ids[n].id])
        /\ file.text.plugin_enabled = plugin_settings.enabled

\* C20 witness: a save wrote a registered type whose EventSettings had been
\* edited away from the value registration restored
C20_Witness ==
    /\ last.op = "save_settings"
    /\ last.result
    /\ \E n \in DOMAIN log_settings_ids :
        /\ n \in DOMAIN plugin_settings.previous_settings
        /\ resources[log_settings_ids[n].id] # plugin_settings.previous_settings[n]
        /\ file.text.events_settings[n] =
                serialize_event_settings(resources[log_settings_ids[n].id])

\* C21: a polled dispatch that finds both gates open for a registered event
\* type emits, for that type, one line for every pending instance whose
\* formatting succeeds, in the order the instances were sent (ascending ids),
\* and leaves the reader behind every instance sent so far, so that no later
\* dispatch reads one of them again.
C21_PolledOnePerInstanceInOrder ==
    [][(last'.op = "log_events_set" /\ plugin_settings.enabled) =>
        \A e \in EventNames :
            (registered(log_settings_ids, e, EVENT) /\ settings_of(e).enabled) =>
                /\ PolledIds(emitted', e) =
                     SelectSeq(unread(events[e], reader[e]), LAMBDA id : id \notin last'.failed)
                /\ \A i, j \in DOMAIN PolledIds(emitted', e) :
                        i < j => PolledIds(emitted', e)[i] < PolledIds(emitted', e)[j]
                /\ reader'[e] = events[e].event_count
                /\ unread(events'[e], reader'[e]) = <<>>]_vars

\* instance i of the event type is in the queue and was not read yet
Pending(i) ==
    /\ i >= reader[Both]
    /\ \E k \in DOMAIN (events[Both].a \o events[Both].b) :
            (events[Both].a \o events[Both].b)[k] = i

\* the last step was a polled dispatch that logged instance i
Logged(i) ==
    /\ last.op = "log_events_set"
    /\ \E k \in DOMAIN PolledIds(emitted, Both) : PolledIds(emitted, Both)[k] = i

\* the last step was a polled dispatch in which the formatting of i failed
FormatFailed(i) ==
    /\ last.op = "log_events_set"
    /\ i \in last.failed

\* the global flag or the enabled flag of the event type is false
GateClosed ==
    ~plugin_settings.enabled \/ ~res_settings(LogEvent_log_event(Foo)).enabled

C23_FormatFailureDropsOneLine ==
    [][/\ (last'.op = "log_events_set" /\ last'.failed # {}) =>
            /\ \A e \in EventNames :
                    (registered(log_settings_ids, e, EVENT) /\ settings_of(e).enabled) =>
                        /\ PolledIds(emitted', e) =
                             SelectSeq(unread(events[e], reader[e]),
                                       LAMBDA id : id \notin last'.failed)
                        /\ reader'[e] = events[e].event_count
            /\ stage' = "LastDone"
            /\ UNCHANGED <<resources, plugin_settings, log_settings_ids, file, events>>
       /\ (last'.op \in {"log_triggered", "log_component"} /\ ~last'.result) =>
            /\ emitted' = <<>>
            /\ UNCHANGED <<resources, plugin_settings, log_settings_ids, file, stage>>]_vars

\* C23 witness: a polled dispatch in which the formatting of one instance
\* failed logged the instance sent after it
C23_Witness ==
    /\ last.op = "log_events_set"
    /\ \E bad \in last.failed :
        \E k \in DOMAIN PolledIds(emitted, Both) : PolledIds(emitted, Both)[k] > bad

\* C24: the component dispatch of a pair emits exactly one line when both
\* gates are open and the target has the component, and nothing when the
\* target has no such component or the trigger has no target.
C24_ComponentDispatchOneLine ==
    [][(/\ last'.op = "log_component"
        /\ plugin_settings.enabled
        /\ resources[last'.kind].enabled) =>
            IF last'.result
            THEN Len(emitted') = 1 /\ emitted'[1].to_log.name = last'.name
            ELSE emitted' = <<>>]_vars

\* the " at <origin>" part of a line
Origin == IF track_location THEN " at " \o MaybeLocation_caller[1] ELSE ""

\* the value part of a line under the given settings
Value(settings, object) ==
    IF settings.pretty THEN Debug_pretty(object) ELSE Debug_compact(object)

\* the line of a trigger, the label of the entity given
TriggerLine(name, label, settings, object) ==
    IF label = ""
    THEN name \o Origin \o ": " \o Value(settings, object)
    ELSE name \o " on " \o label \o Origin \o ": " \o Value(settings, object)

\* C25 as stated: the line of a trigger with an entity is
\* "<TypeName> on <EntityLabel>[ at <origin>]: <value>", EntityLabel being the
\* display name of the entity if it has one and its raw identifier otherwise;
\* without entity the line is "<TypeName>[ at <origin>]: <value>".
C25_TriggerLineLabelIsNameOrId ==
    [][last'.op = "log_triggered" =>
        \A i \in DOMAIN emitted' :
            LET to_log == emitted'[i].to_log
                label == IF to_log.on = <<>> THEN "" ELSE to_log.on[1]
            IN to_log.text =
                 TriggerLine(last'.name, label, resources[last'.kind], to_log.object)]_vars

\* C25 amended: the same, EntityLabel being "<display name>(<raw identifier>)"
\* for an entity with a display name and the raw identifier otherwise.
C25_TriggerLineLabelIsNameAndId ==
    [][last'.op = "log_triggered" =>
        \A i \in DOMAIN emitted' :
            LET to_log == emitted'[i].to_log
                label == IF to_log.on = <<>> THEN ""
                         ELSE IF Len(to_log.on) = 2
                              THEN to_log.on[1] \o "(" \o to_log.on[2] \o ")"
                              ELSE to_log.on[1]
            IN to_log.text =
                 TriggerLine(last'.name, label, resources[last'.kind], to_log.object)]_vars

\* C25 witness: a trigger targeting a named entity was logged with its origin
C25_Witness ==
    /\ last.op = "log_triggered"
    /\ Len(emitted) = 1
    /\ emitted[1].to_log.text = "app::Foo on MyEntity(4v1) at src/main.rs:7:5: event(0)"

\* the label a line gives the entity it names
EntityLabel(on) ==
    IF on = <<>> THEN ""
    ELSE IF Len(on) = 2 THEN on[1] \o "(" \o on[2] \o ")" ELSE on[1]

\* the macro of the sink that has the given level
SameLevelMacro(level) ==
    CASE level = Level_ERROR -> "error!"
      [] level = Level_WARN -> "warn!"
      [] level = Level_INFO -> "info!"
      [] level = Level_DEBUG -> "debug!"
      [] level = Level_TRACE -> "trace!"

\* C26: every line a dispatch emits for a type goes to the macro of the level
\* that the settings of the type hold at the dispatch, at that level, and its
\* value is in the pretty debug form iff the pretty flag of those settings is
\* true.
C26_LineUsesLevelAndPrettyOfSettings ==
    [][last'.op \in {"log_events_set", "log_triggered", "log_component"} =>
        \A i \in DOMAIN emitted' :
            LET line == emitted'[i]
                settings == IF last'.op = "log_events_set"
                            THEN settings_of(line.to_log.name)
                            ELSE resources[last'.kind]
            IN /\ line.level = settings.level
               /\ line.macro = SameLevelMacro(settings.level)
               /\ line.to_log.text =
                    TriggerLine(line.to_log.name, EntityLabel(line.to_log.on), settings,
                                line.to_log.object)
               /\ settings.pretty =>
                    line.to_log.text # TriggerLine(line.to_log.name, EntityLabel(line.to_log.on),
                                                   [settings EXCEPT !.pretty = FALSE],
                                                   line.to_log.object)]_vars

\* C26 witness: a polled dispatch emitted a line at the TRACE level
C26_Witness ==
    /\ last.op = "log_events_set"
    /\ \E i \in DOMAIN emitted :
        /\ emitted[i].level = Level_TRACE
        /\ settings_of(emitted[i].to_log.name).level = Level_TRACE

\* C27: previous_settings, the snapshot restored when the plugin was built, is
\* never modified afterwards: no step of the process changes it.
C27_SnapshotNeverModified ==
    [][plugin_settings'.previous_settings = plugin_settings.previous_settings]_vars

\* C27 witness: the settings of a type of the snapshot were edited and saved,
\* and the snapshot still holds the other values
C27_Witness ==
    /\ last.op = "save_settings"
    /\ last.result
    /\ \E n \in DOMAIN plugin_settings.previous_settings \cap DOMAIN log_settings_ids :
        /\ settings_of(n) # plugin_settings.previous_settings[n]
        /\ file.status = "ron"
        /\ n \in DOMAIN file.text.events_settings
        /\ file.text.events_settings[n] = serialize_event_settings(settings_of(n))

\* C28: the registry only grows during a run: a registered name stays, with
\* the id it got, and its kinds only grow; iter_ids yields every registered id
\* exactly once, in the ascending order of the names.
C28_RegistryGrowsAndIteratesInOrder ==
    [][/\ \A n \in DOMAIN log_settings_ids :
            /\ n \in DOMAIN log_settings_ids'
            /\ log_settings_ids'[n].id = log_settings_ids[n].id
            /\ log_settings_ids[n].kind \subseteq log_settings_ids'[n].kind
       /\ \A seq \in {iter_ids(log_settings_ids')} :
            /\ {seq[i] : i \in DOMAIN seq} =
                    {<<n, log_settings_ids'[n].id>> : n \in DOMAIN log_settings_ids'}
            /\ Len(seq) = Cardinality(DOMAIN log_settings_ids')
            /\ \A i, j \in DOMAIN seq :
                    i < j => bytes_lt(as_bytes(seq[i][1]), as_bytes(seq[j][1]))]_vars

\* C28 witness: the type registered first got its second kind, and iter_ids
\* yields the pair registered after it first ("O" sorts before "a")
C28_Witness ==
    /\ last.op = "register_event"
    /\ last.result
    /\ last.name = Both
    /\ log_settings_ids[Both].kind = {EVENT, TRIGGER}
    /\ Len(iter_ids(log_settings_ids)) = 2
    /\ iter_ids(log_settings_ids)[1][1] = "OnAdd<app::Comp>"
    /\ iter_ids(log_settings_ids)[2][1] = "app::Foo"

\* the name passes the name filter of the window state
NamePasses(state, n) ==
    \E name \in {IF state.case_sensitive THEN as_bytes(n) ELSE to_lowercase(as_bytes(n))} :
    \E filter \in {IF state.case_sensitive
                   THEN state.name_filter ELSE to_lowercase(state.name_filter)} :
        IF state.use_regex
        THEN Regex_new(filter) # <<>> /\ is_match(Regex_new(filter)[1], name)
        ELSE contains(name, filter)

\* the entry of name n passes the three filters of the window state
Passes(state, n) ==
    /\ NamePasses(state, n)
    /\ EnabledFilter_contains(state.enabled_filter, settings_of(n).enabled)
    /\ LevelFilter_contains(state.level_filter, settings_of(n).level)

\* C29: in one pass of the settings panel an entry of the registry is
\* displayed iff its name, its enabled flag and its level pass the filters;
\* the pass edits displayed entries only; after it shown is the number of
\* displayed entries, between 0 and the size of the registry; in regex mode a
\* pattern that does not compile displays nothing.
C29_PanelDisplaysWhatPassesTheFilters ==
    [][last'.op = "log_events_window_ui" =>
        /\ \A n \in DOMAIN log_settings_ids :
            /\ (\E i \in DOMAIN displayed' : displayed'[i][1] = n) <=> Passes(window_state', n)
            /\ resources'[log_settings_ids[n].id] # resources[log_settings_ids[n].id] =>
                    \E i \in DOMAIN displayed' : displayed'[i][1] = n
        /\ window_state'.shown =
                Cardinality({n \in DOMAIN log_settings_ids : Passes(window_state', n)})
        /\ window_state'.shown = Len(displayed')
        /\ window_state'.shown \in 0..Cardinality(DOMAIN log_settings_ids)
        /\ (/\ window_state'.use_regex
            /\ Regex_new(IF window_state'.case_sensitive
                         THEN window_state'.name_filter
                         ELSE to_lowercase(window_state'.name_filter)) = <<>>) =>
                displayed' = <<>>]_vars

\* C29 witness: a pass with a regular expression, matched without case, that
\* displayed one of the two entries, and the user edited that entry
C29_Witness ==
    /\ last.op = "log_events_window_ui"
    /\ last.kind = "entry"
    /\ window_state.use_regex
    /\ ~window_state.case_sensitive
    /\ window_state.regex # <<>>
    /\ window_state.shown = 1
    /\ Cardinality(DOMAIN log_settings_ids) = 2
    /\ displayed = <<<<last.name, log_settings_ids[last.name].id>>>>
    /\ last.name = "OnAdd<app::Comp>"

\* C30: every handle the registry holds refers to settings storage that
\* exists, so save_settings and the panel can dereference it.
C30_HandlesReferToStorage ==
    /\ \A n \in DOMAIN log_settings_ids : log_settings_ids[n].id \in DOMAIN resources
    /\ (last.op = "save_settings" /\ last.result) =>
            DOMAIN file.text.events_settings = DOMAIN log_settings_ids

\* C30 witness: save_settings went through the handles of a registry of two
\* names and wrote the settings of both
C30_Witness ==
    /\ last.op = "save_settings"
    /\ last.result
    /\ Cardinality(DOMAIN log_settings_ids) = 2
    /\ \A n \in DOMAIN log_settings_ids :
            file.text.events_settings[n] =
                serialize_event_settings(resources[log_settings_ids[n].id])

\* C31: the polled dispatch, the trigger dispatch, the component dispatch and
\* save_settings only read the settings: none of them changes the settings of
\* a type, the registry or the global flag, whether or not it emits a line.
C31_DispatchAndSaveOnlyRead ==
    [][last'.op \in {"log_events_set", "log_triggered", "log_component", "save_settings"} =>
        /\ resources' = resources
        /\ log_settings_ids' = log_settings_ids
        /\ plugin_settings'.enabled = plugin_settings.enabled]_vars

\* C31 witness: in the last tick of a run save_settings wrote the file, then
\* the polled dispatch ran with an instance pending for a type the user had
\* switched off and emitted nothing; the type is still off and registered
C31_Witness ==
    /\ last.op = "log_events_set"
    /\ last.result
    /\ emitted = <<>>
    /\ app_exit
    /\ save_ok
    /\ events[Both].event_count > 0
    /\ registered(log_settings_ids, Both, EVENT)
    /\ ~settings_of(Both).enabled
    /\ ~file.text.events_settings[Both].enabled

====
